---- MODULE Spec2Model ----
(***************************************************************************)
(* A model of remotefilelog/basepack.py: the pack writer                   *)
(* (mutablebasepack), the pack reader (basepack), the directory store      *)
(* (basepackstore) and the fanout parameters (indexparams).                *)
(*                                                                         *)
(* The directory is a function from the names present to file records.    *)
(* A data file's content is its byte sequence; an index file's content is  *)
(* the record of the three regions writeindex writes (header, fanout       *)
(* table, entries).  A key ("node") is a tuple of bytes.                   *)
(***************************************************************************)
EXTENDS Integers, Sequences, FiniteSets, TLC

(***************************************************************************)
(* Bounds of the model.                                                    *)
(***************************************************************************)
\* Payload bytes one writer may append after the version byte.
MaxData == 2
\* Modification times the filesystem may stamp on a file.
MaxTime == 2
\* Every byte a writer of the model puts in a data file is below it.
DigestBase == 4
\* The number of values a digest can take.
DigestRange == 268435399
\* Packs already published in the directory a store is opened on.
MaxPacks == 2
\* How far from the cutoff the entry counts of SpecCutoff go.
CutoffSpan == 60
\* The prefix sizes indexparams is given go from -MaxPrefix to MaxPrefix.
MaxPrefix == 60

(***************************************************************************)
(* Program constants (basepack.py lines 9-32).                             *)
(***************************************************************************)
VERSION == 0
PACKVERSIONSIZE == 1
INDEXVERSIONSIZE == 2
FANOUTSTART == INDEXVERSIONSIZE
EMPTYFANOUT == -1
SMALLFANOUTPREFIX == 1
LARGEFANOUTPREFIX == 2
SMALLFANOUTCUTOFF == (2^16) \div 8
\* 0b10000000, the "large fanout" bit of the index config byte.
LARGEFANOUTBIT == 128

\* Supplied by the concrete pack kind (self.INDEXENTRYLENGTH, self.PACKSUFFIX,
\* self.INDEXSUFFIX); the values are those of the data pack.
INDEXENTRYLENGTH == 40
PACKSUFFIX == ".datapack"
INDEXSUFFIX == ".dataidx"
\* PACKSUFFIX + '-tmp' and INDEXSUFFIX + '-tmp', the mkstemp suffixes.
PACKTMPSUFFIX == ".datapack-tmp"
INDEXTMPSUFFIX == ".dataidx-tmp"

\* Python's None where a digest or a path may stand: different from every
\* digest, which is 1 at least.
None == 0
ValueError == [error |-> "ValueError"]
RuntimeError == [error |-> "RuntimeError"]
StructError == [error |-> "struct.error"]
OSError == [error |-> "OSError"]
IsError(v) == DOMAIN v = {"error"}

(***************************************************************************)
(* indexparams.__init__                                                    *)
(***************************************************************************)
\* indexparams with two bytes for a fanout entry, not four.
indexparamsshort(prefixsize) ==
    IF prefixsize = SMALLFANOUTPREFIX \/ prefixsize = LARGEFANOUTPREFIX
    THEN LET fanoutcount == 2^(prefixsize * 8)
             fanoutsize == fanoutcount * 2
         IN  [fanoutprefix |-> prefixsize,
              fanoutstruct |-> IF prefixsize = SMALLFANOUTPREFIX
                               THEN "!B" ELSE "!H",
              fanoutcount |-> fanoutcount,
              fanoutsize |-> fanoutsize,
              indexstart |-> FANOUTSTART + fanoutsize]
    ELSE [error |-> "ValueError"]

indexparams(prefixsize) ==
    IF prefixsize = SMALLFANOUTPREFIX \/ prefixsize = LARGEFANOUTPREFIX
    THEN LET fanoutcount == 2^(prefixsize * 8)
             fanoutsize == fanoutcount * 4
         IN  [fanoutprefix |-> prefixsize,
              fanoutstruct |-> IF prefixsize = SMALLFANOUTPREFIX
                               THEN "!B" ELSE "!H",
              fanoutcount |-> fanoutcount,
              fanoutsize |-> fanoutsize,
              indexstart |-> FANOUTSTART + fanoutsize]
    ELSE ValueError

(***************************************************************************)
(* struct.pack / struct.unpack for the formats the module uses.           *)
(***************************************************************************)
\* struct.pack('!I', n): four bytes, most significant first.
PackU32(n) ==
    <<(n \div 16777216) % 256, (n \div 65536) % 256, (n \div 256) % 256, n % 256>>

\* struct.unpack('!I', b)[0]
UnpackU32(b) ==
    b[1] * 16777216 + b[2] * 65536 + b[3] * 256 + b[4]

\* struct.unpack(params.fanoutstruct, node[:params.fanoutprefix])[0]:
\* '!B' reads one byte, '!H' two bytes, most significant first.
FanoutKey(params, node) ==
    IF params.fanoutstruct = "!B"
    THEN node[1]
    ELSE node[1] * 256 + node[2]

(***************************************************************************)
(* sorted(self.entries.iterkeys()): byte strings in lexicographic order.   *)
(***************************************************************************)
RECURSIVE NodeLess(_, _)
NodeLess(a, b) ==
    IF a = <<>> THEN b # <<>>
    ELSE IF b = <<>> THEN FALSE
    ELSE IF a[1] # b[1] THEN a[1] < b[1]
    ELSE NodeLess(Tail(a), Tail(b))

\* The byte of a node at a position, and -1 where the node has ended: a
\* byte string sorts before every string it is a proper prefix of.
ByteAt(node, pos) == IF Len(node) < pos THEN -1 ELSE node[pos]

\* The nodes of a set that agree before pos and have their byte at pos in
\* lo..hi, in lexicographic order: those with the smaller bytes at pos come
\* first, and nodes that agree at pos are ordered by what follows.
RECURSIVE SortedFrom(_, _, _, _)
SortedFrom(nodes, pos, lo, hi) ==
    IF nodes = {} THEN <<>>
    ELSE IF Cardinality(nodes) = 1 THEN <<CHOOSE n \in nodes : TRUE>>
    ELSE IF lo = hi THEN SortedFrom(nodes, pos + 1, -1, 255)
    ELSE LET mid == (lo + hi) \div 2
         IN  SortedFrom({n \in nodes : ByteAt(n, pos) <= mid}, pos, lo, mid)
             \o SortedFrom({n \in nodes : ByteAt(n, pos) > mid},
                           pos, mid + 1, hi)

SortedNodes(nodes) == SortedFrom(nodes, 1, -1, 255)

(***************************************************************************)
(* mutablebasepack.writeindex, lines 204-225.                              *)
(***************************************************************************)
\* LocateEntries that puts in the table the number of the entry, not its
\* location.
RECURSIVE LocateEntriesCount(_, _, _, _)
LocateEntriesCount(params, sorted, count, st) ==
    IF count = Len(sorted) THEN st
    ELSE LET node == sorted[count + 1]
             location == count * INDEXENTRYLENGTH
             fanoutkey == FanoutKey(params, node)
         IN  LocateEntriesCount(params, sorted, count + 1,
                 [fanouttable |->
                      IF st.fanouttable[fanoutkey + 1] = EMPTYFANOUT
                      THEN [st.fanouttable EXCEPT ![fanoutkey + 1] = count]
                      ELSE st.fanouttable,
                  locations |-> (node :> location) @@ st.locations])

\* LocateEntries with line 217's test left out: a bucket keeps the location
\* of the last of its nodes.
RECURSIVE LocateEntriesLast(_, _, _, _)
LocateEntriesLast(params, sorted, count, st) ==
    IF count = Len(sorted) THEN st
    ELSE LET node == sorted[count + 1]
             location == count * INDEXENTRYLENGTH
             fanoutkey == FanoutKey(params, node)
         IN  LocateEntriesLast(params, sorted, count + 1,
                 [fanouttable |-> [st.fanouttable EXCEPT
                                      ![fanoutkey + 1] = location],
                  locations |-> (node :> location) @@ st.locations])

\* The loop over the sorted nodes (lines 213-218) for the nodes lo..hi of
\* the list: st holds fanouttable and locations.  A Python list is indexed
\* from 0 and a sequence from 1: bucket b of the list is element b + 1 of
\* the sequence, and the loop's counter at node lo is lo - 1.  The loop
\* over lo..hi is the loop over its first half, carried to its end, and
\* then the loop over its second half, which keeps the evaluation shallow.
RECURSIVE LocateRange(_, _, _, _, _)
LocateRange(params, sorted, lo, hi, st) ==
    IF lo > hi THEN st
    ELSE IF lo = hi
    THEN LET node == sorted[lo]
             location == (lo - 1) * INDEXENTRYLENGTH
             fanoutkey == FanoutKey(params, node)
             table == IF st.fanouttable[fanoutkey + 1] = EMPTYFANOUT
                      THEN [st.fanouttable EXCEPT ![fanoutkey + 1] = location]
                      ELSE st.fanouttable
         IN  [fanouttable |-> table,
              locations |-> (node :> location) @@ st.locations]
    ELSE LET mid == (lo + hi) \div 2
             first == LocateRange(params, sorted, lo, mid, st)
         IN  IF DOMAIN first.locations = {} THEN first
             ELSE LocateRange(params, sorted, mid + 1, hi, first)

\* The loop entered with its counter at count.
LocateEntries(params, sorted, count, st) ==
    LocateRange(params, sorted, count + 1, Len(sorted), st)

\* BackFill that writes 0 for an empty bucket instead of last.
RECURSIVE BackFillZero(_, _, _, _)
BackFillZero(fanouttable, lo, hi, last) ==
    IF lo > hi THEN [raw |-> <<>>, last |-> last]
    ELSE IF lo = hi
    THEN LET offset == IF fanouttable[lo] # EMPTYFANOUT
                       THEN fanouttable[lo] ELSE 0
         IN  [raw |-> <<PackU32(offset)>>, last |-> offset]
    ELSE LET mid == (lo + hi) \div 2
             first == BackFillZero(fanouttable, lo, mid, last)
             second == BackFillZero(fanouttable, mid + 1, hi, first.last)
         IN  [raw |-> first.raw \o second.raw, last |-> second.last]

\* The loop that serializes the table (lines 220-225), buckets lo..hi of it,
\* entered with the loop variable last: an empty bucket takes the value of
\* last, and every bucket leaves its own value in last.  The loop over
\* lo..hi is the loop over its first half followed by the loop over its
\* second half, which keeps the evaluation shallow.
RECURSIVE BackFill(_, _, _, _)
BackFill(fanouttable, lo, hi, last) ==
    IF lo > hi THEN [raw |-> <<>>, last |-> last]
    ELSE IF lo = hi
    THEN LET offset == IF fanouttable[lo] # EMPTYFANOUT
                       THEN fanouttable[lo] ELSE last
         IN  [raw |-> <<PackU32(offset)>>, last |-> offset]
    ELSE LET mid == (lo + hi) \div 2
             first == BackFill(fanouttable, lo, mid, last)
             second == BackFill(fanouttable, mid + 1, hi, first.last)
         IN  [raw |-> first.raw \o second.raw, last |-> second.last]

\* createindex of the concrete pack kind: one fixed-width entry per node, in
\* sorted node order.
createindex(nodelocations) ==
    LET sorted == SortedNodes(DOMAIN nodelocations)
    IN  [i \in 1..Len(sorted) |-> [node |-> sorted[i]]]

\* _writeheader: the version byte and the config byte.
writeheader(params) ==
    <<VERSION,
      IF params.fanoutprefix = LARGEFANOUTPREFIX THEN LARGEFANOUTBIT ELSE 0>>

\* WriteIndexParams with >= for line 198's >.
WriteIndexParamsAtLeast(count) ==
    IF count >= SMALLFANOUTCUTOFF
    THEN indexparams(LARGEFANOUTPREFIX)
    ELSE indexparams(SMALLFANOUTPREFIX)

\* largefanout = len(self.entries) > SMALLFANOUTCUTOFF and the params chosen.
WriteIndexParams(count) ==
    IF count > SMALLFANOUTCUTOFF
    THEN indexparams(LARGEFANOUTPREFIX)
    ELSE indexparams(SMALLFANOUTPREFIX)

\* The fanout table and the locations after the first loop.
WriteIndexLocate(nodes) ==
    LET params == WriteIndexParams(Cardinality(nodes))
    IN  LocateEntries(params, SortedNodes(nodes), 0,
            [fanouttable |-> [b \in 1..params.fanoutcount |-> EMPTYFANOUT],
             locations |-> <<>>])

\* The bytes writeindex leaves in the index file.
writeindex(nodes) ==
    LET params == WriteIndexParams(Cardinality(nodes))
        located == WriteIndexLocate(nodes)
    IN  [header |-> writeheader(params),
         rawfanout |-> BackFill(located.fanouttable, 1,
                               Len(located.fanouttable), 0).raw,
         rawindex |-> createindex(located.locations)]

(***************************************************************************)
(* hashlib.sha1.  The accumulator is modelled by the bytes fed to it:      *)
(* update(a) then update(b) leaves the state update(a + b) leaves.  The    *)
(* digest has a fixed width, whatever the length of what was fed: it is    *)
(* modelled by a number below DigestRange, which is different for          *)
(* different byte sequences over the bytes the model writes (all below     *)
(* DigestBase) as long as they are short enough for their number to stay   *)
(* below DigestRange (sha1 is taken to have no collisions); hex digests of *)
(* one length sort as their numbers do.                                    *)
(***************************************************************************)
shaupdate(fed, data) == fed \o data

\* The digest after the bytes lo..hi of fed, from the digest h before them.
\* The bytes lo..hi are their first half, taken in to the end, and then
\* their second half, which keeps the evaluation shallow.
RECURSIVE DigestFrom(_, _, _, _)
DigestFrom(fed, lo, hi, h) ==
    IF lo > hi THEN h
    ELSE IF lo = hi
    THEN (h * DigestBase + (fed[lo] % DigestBase)) % DigestRange
    ELSE LET mid == (lo + hi) \div 2
             first == DigestFrom(fed, lo, mid, h)
         IN  IF first < 0 THEN first
             ELSE DigestFrom(fed, mid + 1, hi, first)

hexdigest(fed) == DigestFrom(fed, 1, Len(fed), 1)

(***************************************************************************)
(* The target directory.  A name is a stem and a suffix: the stem of a     *)
(* published file is the digest, the stem of a temporary file is mkstemp's *)
(* unique part, modelled by the writer's number.                           *)
(***************************************************************************)
FileName(stem, suffix) == [stem |-> stem, suffix |-> suffix]

\* A zero-length file, as mkstemp creates it.
EmptyData == <<>>
EmptyIndex == [header |-> <<>>, rawfanout |-> <<>>, rawindex |-> <<>>]

\* opener.rename(src, dst): dst is replaced when it exists.
rename(d, src, dst) ==
    [n \in (DOMAIN d \ {src}) \cup {dst} |-> IF n = dst THEN d[src] ELSE d[n]]

\* opener.unlink(name)
unlink(d, name) == [n \in DOMAIN d \ {name} |-> d[n]]

\* A write to a file that exists: new content, new modification time.
writefile(d, name, content, mtime) ==
    [d EXCEPT ![name] = [content |-> content, mtime |-> mtime]]

\* opener.mkstemp(suffix=...) for writer w.
mkstemp(d, w, suffix, mtime) ==
    (FileName(w, suffix) :> [content |-> IF suffix = PACKTMPSUFFIX
                                         THEN EmptyData ELSE EmptyIndex,
                             mtime |-> mtime]) @@ d

(***************************************************************************)
(* State.                                                                  *)
(*   dir     the target directory: name -> [content, mtime]                *)
(*   writer  per writer, the mutablebasepack object and the position of    *)
(*           the code that uses it in a with statement; writes counts the  *)
(*           calls of writeraw                                             *)
(*   created the paths the ledger was told of (ledger.addcreated)          *)
(*   store   the basepackstore object and the position of its constructor  *)
(*   query   a call of basepackstore.getmissing                            *)
(*   reader  a basepack object and the position of its constructor         *)
(***************************************************************************)
VARIABLES dir, writer, created, store, query, reader, built

vars == <<dir, writer, created, store, query, reader, built>>

\* The writers that share the target directory.
Writers == {1, 2}
Times == 1..MaxTime
\* The payload bytes and the chunks one writeraw call may carry.
DataBytes == {1}
Chunks == UNION {[1..n -> DataBytes] : n \in 1..MaxData}
\* The nodes the writers of the directory model may add.
SpecNodes == {<<0, 1>>, <<1, 0>>}

packpath(w) == FileName(w, PACKTMPSUFFIX)
idxpath(w) == FileName(w, INDEXTMPSUFFIX)

NoWriter ==
    [pc |-> "start", entries |-> {}, sha |-> <<>>, writes |-> 0,
     packfpclosed |-> FALSE,
     idxfpclosed |-> FALSE, closed |-> FALSE, closes |-> 0, digest |-> None,
     ledger |-> FALSE, caller |-> "", result |-> None, outcome |-> "",
     tried |-> {}]

(***************************************************************************)
(* mutablebasepack.__init__: two temporary files, the accumulator, and     *)
(* the version byte written through writeraw.  A temporary file's          *)
(* modification time decides nothing until close stamps it again, so       *)
(* every writer is constructed at the first time of the model.             *)
(***************************************************************************)
New(w) ==
    /\ writer[w].pc = "start"
    /\ LET version == <<VERSION>>
           mtime == 1
           made == mkstemp(mkstemp(dir, w, PACKTMPSUFFIX, mtime),
                           w, INDEXTMPSUFFIX, mtime)
       IN  /\ dir' = writefile(made, packpath(w), version, mtime)
           /\ writer' = [writer EXCEPT ![w].pc = "body",
                                       ![w].sha = shaupdate(<<>>, version),
                                       ![w].writes = 1]
    /\ UNCHANGED <<created, store, query, reader, built>>

(***************************************************************************)
(* mutablebasepack.writeraw, called in the with body.  The file object's   *)
(* buffering is not modelled: nothing reads a temporary file.              *)
(***************************************************************************)
writeraw(d, w, data) ==
    [d EXCEPT ![packpath(w)].content = @ \o data]

\* WriteRaw without line 172: the bytes are written and not hashed.
WriteRawUnhashed(w, data) ==
    /\ writer[w].pc = "body"
    /\ ~writer[w].packfpclosed
    /\ Len(dir[packpath(w)].content) + Len(data) <= PACKVERSIONSIZE + MaxData
    /\ dir' = writeraw(dir, w, data)
    /\ writer' = [writer EXCEPT ![w].writes = @ + 1]
    /\ UNCHANGED <<created, store, query, reader, built>>

WriteRaw(w, data) ==
    /\ writer[w].pc = "body"
    /\ ~writer[w].packfpclosed
    /\ Len(writer[w].sha) + Len(data) <= PACKVERSIONSIZE + MaxData
    /\ dir' = writeraw(dir, w, data)
    /\ writer' = [writer EXCEPT ![w].sha = shaupdate(@, data),
                                ![w].writes = @ + 1]
    /\ UNCHANGED <<created, store, query, reader, built>>

\* add of the concrete pack kind: the entry's bytes go through writeraw and
\* its node is recorded in self.entries.
Add(w, node, data) ==
    /\ writer[w].pc = "body"
    /\ ~writer[w].packfpclosed
    /\ Len(writer[w].sha) + Len(data) <= PACKVERSIONSIZE + MaxData
    /\ dir' = writeraw(dir, w, data)
    /\ writer' = [writer EXCEPT ![w].sha = shaupdate(@, data),
                                ![w].writes = @ + 1,
                                ![w].entries = @ \cup {node}]
    /\ UNCHANGED <<created, store, query, reader, built>>

(***************************************************************************)
(* mutablebasepack.close.  Lines 175-177 (the digest, packfp.close(),      *)
(* writeindex()) touch only the writer and its own temporary files and are *)
(* one step; every unlink and rename is a step of its own.                 *)
(***************************************************************************)
CloseBegin(w, ledger, caller, mtime) ==
    /\ dir' = writefile(
                 [dir EXCEPT ![packpath(w)].mtime = mtime],
                 idxpath(w), writeindex(writer[w].entries), mtime)
    /\ writer' = [writer EXCEPT
                     ![w].digest = hexdigest(writer[w].sha),
                     ![w].packfpclosed = TRUE,
                     ![w].idxfpclosed = TRUE,
                     ![w].closes = @ + 1,
                     ![w].ledger = ledger,
                     ![w].caller = caller,
                     ![w].pc = IF Cardinality(writer[w].entries) = 0
                               THEN "close_unlink_pack"
                               ELSE "close_rename_pack"]
    /\ UNCHANGED <<created, store, query, reader, built>>

\* close returns to the with body that called it, or to __exit__, which
\* returns in turn; close's parameter and local go out of scope.
CloseReturn(w, result) ==
    [writer EXCEPT ![w].closed = TRUE,
                   ![w].result = result,
                   ![w].digest = None,
                   ![w].ledger = FALSE,
                   ![w].caller = "",
                   ![w].pc = IF writer[w].caller = "body" THEN "body" ELSE "done",
                   ![w].outcome = IF writer[w].caller = "body" THEN @
                                  ELSE "returned"]

\* close() called in the with body, for the first time.
Close(w, ledger, mtime) ==
    /\ writer[w].pc = "body"
    /\ ~writer[w].idxfpclosed
    /\ CloseBegin(w, ledger, "body", mtime)

\* CloseAgain for a writeindex that left idxfp open (no line 232): the
\* second writeindex writes through idxfp to the file, which by then has
\* its published name, before the rename of line 186 finds no temporary
\* file and raises.
CloseAgainRewrites(w) ==
    /\ writer[w].pc = "body"
    /\ writer[w].idxfpclosed
    /\ LET name == FileName(writer[w].result, INDEXSUFFIX)
       IN  dir' = IF name \in DOMAIN dir
                  THEN [dir EXCEPT ![name].content.rawindex = @ \o @]
                  ELSE dir
    /\ writer' = [writer EXCEPT ![w].pc = "exit_unlink_pack",
                                ![w].closes = @ + 1]
    /\ UNCHANGED <<created, store, query, reader, built>>

\* close() called again: packfp.close() does nothing, and _writeheader's
\* write to the closed index file raises ValueError into the with body.
CloseAgain(w) ==
    /\ writer[w].pc = "body"
    /\ writer[w].idxfpclosed
    /\ writer' = [writer EXCEPT ![w].pc = "exit_unlink_pack",
                                ![w].closes = @ + 1]
    /\ UNCHANGED <<dir, created, store, query, reader, built>>

\* CloseUnlinkIdx without line 182: the index temporary file is left.
CloseUnlinkIdxLeft(w) ==
    /\ writer[w].pc = "close_unlink_idx"
    /\ writer' = CloseReturn(w, None)
    /\ UNCHANGED <<dir, created, store, query, reader, built>>

\* CloseRenamePack with lines 186 and 187 in the other order: the index
\* file is renamed first.
CloseRenameIndexFirst(w) ==
    /\ writer[w].pc = "close_rename_pack"
    /\ idxpath(w) \in DOMAIN dir
    /\ dir' = rename(dir, idxpath(w), FileName(writer[w].digest, INDEXSUFFIX))
    /\ writer' = [writer EXCEPT ![w].pc = "close_rename_idx"]
    /\ UNCHANGED <<created, store, query, reader, built>>

\* Line 181
CloseUnlinkPack(w) ==
    /\ writer[w].pc = "close_unlink_pack"
    /\ packpath(w) \in DOMAIN dir
    /\ dir' = unlink(dir, packpath(w))
    /\ writer' = [writer EXCEPT ![w].pc = "close_unlink_idx"]
    /\ UNCHANGED <<created, store, query, reader, built>>

\* Lines 182-184
CloseUnlinkIdx(w) ==
    /\ writer[w].pc = "close_unlink_idx"
    /\ idxpath(w) \in DOMAIN dir
    /\ dir' = unlink(dir, idxpath(w))
    /\ writer' = CloseReturn(w, None)
    /\ UNCHANGED <<created, store, query, reader, built>>

\* Line 186
CloseRenamePack(w) ==
    /\ writer[w].pc = "close_rename_pack"
    /\ packpath(w) \in DOMAIN dir
    /\ dir' = rename(dir, packpath(w), FileName(writer[w].digest, PACKSUFFIX))
    /\ writer' = [writer EXCEPT ![w].pc = "close_rename_idx"]
    /\ UNCHANGED <<created, store, query, reader, built>>

\* CloseRenameIdx without line 191's test: addcreated is called whether a
\* ledger was passed or not.
CloseRenameIdxNotifies(w) ==
    /\ writer[w].pc = "close_rename_idx"
    /\ idxpath(w) \in DOMAIN dir
    /\ dir' = rename(dir, idxpath(w), FileName(writer[w].digest, INDEXSUFFIX))
    /\ writer' = CloseReturn(w, writer[w].digest)
    /\ created' = Append(created, writer[w].digest)
    /\ UNCHANGED <<store, query, reader, built>>

\* Lines 187-193; opener.join(sha) is modelled by the digest.
CloseRenameIdx(w) ==
    /\ writer[w].pc = "close_rename_idx"
    /\ idxpath(w) \in DOMAIN dir
    /\ dir' = rename(dir, idxpath(w), FileName(writer[w].digest, INDEXSUFFIX))
    /\ LET result == writer[w].digest
       IN  /\ writer' = CloseReturn(w, result)
           /\ created' = IF writer[w].ledger THEN Append(created, result)
                         ELSE created
    /\ UNCHANGED <<store, query, reader, built>>

(***************************************************************************)
(* mutablebasepack.__exit__                                                *)
(***************************************************************************)
\* ExitNormal without lines 160-161: __exit__ never calls close.
ExitNormalNoClose(w, mtime) ==
    /\ writer[w].pc = "body"
    /\ writer' = [writer EXCEPT ![w].pc = "done", ![w].outcome = "returned"]
    /\ UNCHANGED <<dir, created, store, query, reader, built>>

\* The with body ends without an error (exc_type is None).
ExitNormal(w, mtime) ==
    /\ writer[w].pc = "body"
    /\ IF ~writer[w].closed
       THEN CloseBegin(w, FALSE, "exit", mtime)
       ELSE /\ writer' = [writer EXCEPT ![w].pc = "done",
                                        ![w].outcome = "returned"]
            /\ UNCHANGED <<dir, created, store, query, reader, built>>

\* The with body raises: __exit__ is entered with the error.
Raise(w) ==
    /\ writer[w].pc = "body"
    /\ writer' = [writer EXCEPT ![w].pc = "exit_unlink_pack"]
    /\ UNCHANGED <<dir, created, store, query, reader, built>>

\* ExitUnlinkIdx without line 166: __exit__ ends after the first unlink.
ExitUnlinkIdxSkipped(w) ==
    /\ writer[w].pc = "exit_unlink_idx"
    /\ writer' = [writer EXCEPT ![w].pc = "done", ![w].outcome = "raised"]
    /\ UNCHANGED <<dir, created, store, query, reader, built>>

\* Line 165.  An OSError (the file is gone) is swallowed by line 167, which
\* leaves the try block: line 166 is then not run.  tried holds the paths
\* __exit__ has called unlink with.
ExitUnlinkPack(w) ==
    /\ writer[w].pc = "exit_unlink_pack"
    /\ IF packpath(w) \in DOMAIN dir
       THEN /\ dir' = unlink(dir, packpath(w))
            /\ writer' = [writer EXCEPT ![w].pc = "exit_unlink_idx",
                                        ![w].tried = @ \cup {packpath(w)}]
       ELSE /\ dir' = dir
            /\ writer' = [writer EXCEPT ![w].pc = "done",
                                        ![w].outcome = "raised",
                                        ![w].tried = @ \cup {packpath(w)}]
    /\ UNCHANGED <<created, store, query, reader, built>>

\* Line 166; __exit__ returns None and the error goes on to the caller.
ExitUnlinkIdx(w) ==
    /\ writer[w].pc = "exit_unlink_idx"
    /\ dir' = IF idxpath(w) \in DOMAIN dir THEN unlink(dir, idxpath(w)) ELSE dir
    /\ writer' = [writer EXCEPT ![w].pc = "done", ![w].outcome = "raised",
                                ![w].tried = @ \cup {idxpath(w)}]
    /\ UNCHANGED <<created, store, query, reader, built>>

(***************************************************************************)
(* File operations that fail.  An error raised inside close leaves close:  *)
(* into the with body that called it, whose error __exit__ then handles,   *)
(* or out of __exit__ when __exit__ called it (line 161), where nothing    *)
(* catches it.                                                             *)
(***************************************************************************)
CloseRaise(w) ==
    [writer EXCEPT ![w].digest = None,
                   ![w].ledger = FALSE,
                   ![w].caller = "",
                   ![w].pc = IF writer[w].caller = "body"
                             THEN "exit_unlink_pack" ELSE "done",
                   ![w].outcome = IF writer[w].caller = "body" THEN @
                                  ELSE "raised"]

\* Lines 175-177 when a write of writeindex to the index file fails (the
\* disk is full): the header is written or nothing is, idxfp is left open.
WriteIndexFail(w, caller, header) ==
    /\ writer[w].pc = "body"
    /\ ~writer[w].idxfpclosed
    /\ ~writer[w].packfpclosed
    /\ caller = "exit" => ~writer[w].closed
    /\ dir' = [dir EXCEPT ![idxpath(w)].content.header =
                  IF header
                  THEN writeheader(WriteIndexParams(Cardinality(writer[w].entries)))
                  ELSE <<>>]
    /\ writer' = [writer EXCEPT
                     ![w].packfpclosed = TRUE,
                     ![w].closes = @ + 1,
                     ![w].pc = IF caller = "body"
                               THEN "exit_unlink_pack" ELSE "done",
                     ![w].outcome = IF caller = "body" THEN @ ELSE "raised"]
    /\ UNCHANGED <<created, store, query, reader, built>>

\* Line 181 or line 182 raises.
CloseUnlinkFail(w) ==
    /\ writer[w].pc \in {"close_unlink_pack", "close_unlink_idx"}
    /\ writer' = CloseRaise(w)
    /\ UNCHANGED <<dir, created, store, query, reader, built>>

\* Line 186 raises: neither file is renamed.
CloseRenamePackFail(w) ==
    /\ writer[w].pc = "close_rename_pack"
    /\ writer' = CloseRaise(w)
    /\ UNCHANGED <<dir, created, store, query, reader, built>>

\* Line 187 raises: the data file has its published name, the index file
\* its temporary one.
CloseRenameIdxFail(w) ==
    /\ writer[w].pc = "close_rename_idx"
    /\ writer' = CloseRaise(w)
    /\ UNCHANGED <<dir, created, store, query, reader, built>>

\* Line 165 raises for a file that is there (it may not be removed): line
\* 167 swallows the error and line 166 is not run.
ExitUnlinkPackFail(w) ==
    /\ writer[w].pc = "exit_unlink_pack"
    /\ packpath(w) \in DOMAIN dir
    /\ writer' = [writer EXCEPT ![w].pc = "done",
                                ![w].outcome = "raised",
                                ![w].tried = @ \cup {packpath(w)}]
    /\ UNCHANGED <<dir, created, store, query, reader, built>>

\* Line 166 raises for a file that is there: line 167 swallows the error.
ExitUnlinkIdxFail(w) ==
    /\ writer[w].pc = "exit_unlink_idx"
    /\ idxpath(w) \in DOMAIN dir
    /\ writer' = [writer EXCEPT ![w].pc = "done",
                                ![w].outcome = "raised",
                                ![w].tried = @ \cup {idxpath(w)}]
    /\ UNCHANGED <<dir, created, store, query, reader, built>>

(***************************************************************************)
(* basepack.__init__.  The two memory maps are read-only views of files    *)
(* that never change once published: the reader keeps its path and reads   *)
(* the directory through it.  status is the line the constructor has       *)
(* reached, or the error it raised; an error leaves no reader.             *)
(***************************************************************************)
NoParams == [fanoutprefix |-> 0, fanoutstruct |-> "", fanoutcount |-> 0,
             fanoutsize |-> 0, indexstart |-> 0]

\* No indexparams object has been constructed by itself.
NoBuilt == [pc |-> "none", prefixsize |-> 0, value |-> NoParams]

NewReader(path) ==
    [path |-> path, params |-> NoParams, fanouttable |-> <<>>,
     status |-> "new"]

readerindexpath(self) == FileName(self.path, INDEXSUFFIX)
readerpackpath(self) == FileName(self.path, PACKSUFFIX)

\* Lines 75-89: open() raises IOError for a missing file, mmap.mmap raises
\* ValueError for an empty one.
readeropen(d, self) ==
    IF readerindexpath(self) \notin DOMAIN d \/ readerpackpath(self) \notin DOMAIN d
    THEN [self EXCEPT !.status = "IOError"]
    ELSE IF d[readerindexpath(self)].content = EmptyIndex
            \/ d[readerpackpath(self)].content = EmptyData
    THEN [self EXCEPT !.status = "ValueError"]
    ELSE [self EXCEPT !.status = "mapped"]

\* Lines 91-94
readercheckdata(d, self) ==
    LET version == d[readerpackpath(self)].content[1]
    IN  IF version # VERSION
        THEN [self EXCEPT !.status = "RuntimeError"]
        ELSE [self EXCEPT !.status = "dataversion"]

\* readercheckindex without its test: any index version passes.
readercheckindexany(d, self) == [self EXCEPT !.status = "indexversion"]

\* Lines 96-100
readercheckindex(d, self) ==
    LET version == d[readerindexpath(self)].content.header[1]
    IN  IF version # VERSION
        THEN [self EXCEPT !.status = "RuntimeError"]
        ELSE [self EXCEPT !.status = "indexversion"]

\* readerload without lines 102-105: the large fanout is taken whatever
\* the config byte says.
readerloadlarge(d, self) ==
    LET rawfanout == d[readerindexpath(self)].content.rawfanout
        params == indexparams(LARGEFANOUTPREFIX)
    IN  IF Len(rawfanout) < params.fanoutcount
        THEN [self EXCEPT !.params = params, !.status = "struct.error"]
        ELSE [self EXCEPT
                 !.params = params,
                 !.fanouttable = [i \in 1..params.fanoutcount |->
                                     UnpackU32(rawfanout[i])],
                 !.status = "ready"]

\* Lines 102-113.  0b10000000 & config is bit 7 of the config byte.  The
\* table is read from the bytes that follow the header; struct.unpack
\* raises struct.error when the file ends before the table does (the
\* entries that follow a table are far fewer than a large table's words).
readerload(d, self) ==
    LET index == d[readerindexpath(self)].content
        config == index.header[2]
        params == IF (config \div LARGEFANOUTBIT) % 2 = 1
                  THEN indexparams(LARGEFANOUTPREFIX)
                  ELSE indexparams(SMALLFANOUTPREFIX)
        rawfanout == index.rawfanout
    IN  IF Len(rawfanout) < params.fanoutcount
        THEN [self EXCEPT !.params = params, !.status = "struct.error"]
        ELSE [self EXCEPT
                 !.params = params,
                 !.fanouttable = [i \in 1..params.fanoutcount |->
                                     UnpackU32(rawfanout[i])],
                 !.status = "ready"]

\* The constructor from its first line to its last.
basepackinit(d, path) ==
    LET opened == readeropen(d, NewReader(path))
        datachecked == IF opened.status = "mapped"
                       THEN readercheckdata(d, opened) ELSE opened
        indexchecked == IF datachecked.status = "dataversion"
                        THEN readercheckindex(d, datachecked) ELSE datachecked
    IN  IF indexchecked.status = "indexversion"
        THEN readerload(d, indexchecked) ELSE indexchecked

(***************************************************************************)
(* basepackstore.__init__                                                  *)
(***************************************************************************)
\* Python's order of two file names.  A published name is forty hex digits
\* and a suffix, a temporary name is "tmp", mkstemp's unique part and a
\* suffix: hex digits sort before "t", and ".dataidx" before ".datapack".
IsTemp(name) == name.suffix \in {PACKTMPSUFFIX, INDEXTMPSUFFIX}
SuffixRank(suffix) ==
    CASE suffix = INDEXSUFFIX -> 1
      [] suffix = INDEXTMPSUFFIX -> 2
      [] suffix = PACKSUFFIX -> 3
      [] suffix = PACKTMPSUFFIX -> 4

NameLess(a, b) ==
    IF IsTemp(a) # IsTemp(b) THEN IsTemp(b)
    ELSE IF a.stem # b.stem THEN a.stem < b.stem
    ELSE SuffixRank(a.suffix) < SuffixRank(b.suffix)

\* The order of two (st_mtime, filename) tuples.
FileLess(a, b) ==
    IF a.mtime # b.mtime THEN a.mtime < b.mtime
    ELSE NameLess(a.filename, b.filename)

\* sorted(files) without reverse=True.
RECURSIVE SortedAscending(_)
SortedAscending(files) ==
    IF files = {} THEN <<>>
    ELSE LET least == CHOOSE f \in files :
                          \A g \in files \ {f} : FileLess(f, g)
         IN  <<least>> \o SortedAscending(files \ {least})

\* sorted(files, reverse=True)
RECURSIVE SortedReverse(_)
SortedReverse(files) ==
    IF files = {} THEN <<>>
    ELSE LET greatest == CHOOSE f \in files :
                             \A g \in files \ {f} : FileLess(g, f)
         IN  <<greatest>> \o SortedReverse(files \ {greatest})

\* PairedIndexes without line 55: every listed index file is opened.
RECURSIVE PairedIndexesUnchecked(_, _)
PairedIndexesUnchecked(sorted, filenames) ==
    IF sorted = <<>> THEN <<>>
    ELSE LET filename == Head(sorted).filename
             rest == PairedIndexesUnchecked(Tail(sorted), filenames)
         IN  IF filename.suffix = INDEXSUFFIX THEN <<filename>> \o rest
             ELSE rest

\* Lines 52-57: the index files of the listing whose data file is listed
\* too, in the order of the sorted listing.
RECURSIVE PairedIndexes(_, _)
PairedIndexes(sorted, filenames) ==
    IF sorted = <<>> THEN <<>>
    ELSE LET filename == Head(sorted).filename
             packfilename == FileName(filename.stem, PACKSUFFIX)
             rest == PairedIndexes(Tail(sorted), filenames)
         IN  IF filename.suffix = INDEXSUFFIX /\ packfilename \in filenames
             THEN <<filename>> \o rest
             ELSE rest

\* errno values of the platform: ENOENT is the one line 46 names, the two
\* others stand for every other error of a directory listing.
ENOENT == 2
EACCES == 13
ENOTDIR == 20
Errnos == {ENOENT, EACCES, ENOTDIR}

\* errno is the errno of the OSError osutil.listdir raised, 0 when it
\* raised none.
NoStore == [pc |-> "start", present |-> {}, files |-> {}, queue |-> <<>>,
            packs |-> <<>>, errno |-> 0]

\* osutil.listdir opens the directory.  Reading a directory is not atomic:
\* a name present from here to the end of the listing is listed, a name
\* that comes or goes meanwhile may or may not be.
StoreListBegin ==
    /\ store.pc = "start"
    /\ store' = [store EXCEPT !.pc = "listing", !.present = DOMAIN dir]
    /\ UNCHANGED <<dir, writer, created, query, reader, built>>

\* StoreListError with a bare `except OSError: pass` for lines 45-47.
StoreListErrorSwallowed(errno) ==
    /\ store.pc = "start"
    /\ errno = ENOENT => DOMAIN dir = {}
    /\ store' = [store EXCEPT !.errno = errno, !.pc = "ready"]
    /\ UNCHANGED <<dir, writer, created, query, reader, built>>

\* osutil.listdir raises OSError(errno) (lines 42, 45-47): ENOENT, raised
\* for a directory that does not exist and so holds no file, is swallowed,
\* and lines 51-57 run on the empty listing; any other error leaves the
\* constructor and no store is made.
StoreListError(errno) ==
    /\ store.pc = "start"
    /\ errno = ENOENT => DOMAIN dir = {}
    /\ store' = IF errno # ENOENT
                THEN [store EXCEPT !.errno = errno, !.pc = "OSError"]
                ELSE [store EXCEPT
                         !.errno = errno,
                         !.queue = PairedIndexes(SortedReverse({}), {}),
                         !.pc = "ready"]
    /\ UNCHANGED <<dir, writer, created, query, reader, built>>

\* Lines 42-44 for one name the directory holds at this moment.
StoreListEntry(filename) ==
    /\ store.pc = "listing"
    /\ filename \in DOMAIN dir
    /\ \A f \in store.files : f.filename # filename
    /\ store' = [store EXCEPT
                    !.files = @ \cup {[mtime |-> dir[filename].mtime,
                                       filename |-> filename]}]
    /\ UNCHANGED <<dir, writer, created, query, reader, built>>

\* The listing ends; lines 51-55 sort it and pair the index files.
StoreListEnd ==
    /\ store.pc = "listing"
    /\ \A n \in store.present \cap DOMAIN dir :
           \E f \in store.files : f.filename = n
    /\ LET filenames == {f.filename : f \in store.files}
           queue == PairedIndexes(SortedReverse(store.files), filenames)
       IN  store' = [store EXCEPT !.queue = queue,
                                  !.present = {},
                                  !.pc = IF queue = <<>> THEN "ready"
                                         ELSE "opening"]
    /\ UNCHANGED <<dir, writer, created, query, reader, built>>

\* getpack of the concrete store: the reader of the pack kind, built by
\* basepack.__init__.
getpack(d, path) == basepackinit(d, path)

\* Lines 56-57 for the next paired index file.  An error of the reader's
\* constructor leaves basepackstore.__init__: no store is made.
StoreOpenPack ==
    /\ store.pc = "opening"
    /\ LET pack == getpack(dir, Head(store.queue).stem)
       IN  IF pack.status = "ready"
           THEN store' = [store EXCEPT
                             !.packs = Append(@, pack),
                             !.queue = Tail(@),
                             !.pc = IF Tail(store.queue) = <<>> THEN "ready"
                                    ELSE "opening"]
           ELSE store' = [store EXCEPT !.pc = pack.status, !.queue = <<>>,
                                       !.packs = <<>>]
    /\ UNCHANGED <<dir, writer, created, query, reader, built>>

(***************************************************************************)
(* basepackstore.getmissing, a step for each turn of its loop.  asked      *)
(* records every call of a pack's getmissing: the pack's place in          *)
(* self.packs, what it was given and what it returned.                     *)
(***************************************************************************)
\* The lookup of the concrete pack kind: the sorted entries are searched
\* from the offset the fanout table gives for the node's bucket.
RECURSIVE SearchEntries(_, _, _)
SearchEntries(rawindex, i, node) ==
    IF i > Len(rawindex) THEN FALSE
    ELSE IF rawindex[i].node = node THEN TRUE
    ELSE IF NodeLess(node, rawindex[i].node) THEN FALSE
    ELSE SearchEntries(rawindex, i + 1, node)

packfind(d, pack, node) ==
    LET start == pack.fanouttable[FanoutKey(pack.params, node) + 1]
    IN  /\ start % INDEXENTRYLENGTH = 0
        /\ SearchEntries(d[readerindexpath(pack)].content.rawindex,
                         (start \div INDEXENTRYLENGTH) + 1, node)

\* getmissing of the concrete pack kind: the keys its lookup does not find.
packgetmissing(d, pack, keys) == {k \in keys : ~packfind(d, pack, k)}

\* basepackstore.getmissing from its first line to its last, on the list
\* packs.
RECURSIVE getmissing(_, _, _)
getmissing(d, packs, keys) ==
    IF packs = <<>> THEN keys
    ELSE getmissing(d, Tail(packs), packgetmissing(d, Head(packs), keys))

\* Line 63
GetMissingCall(keys) ==
    /\ store.pc = "ready"
    /\ query.pc \in {"idle", "returned"}
    /\ query' = [pc |-> "loop", keys |-> keys, missing |-> keys, i |-> 1,
                 asked |-> <<>>]
    /\ UNCHANGED <<dir, writer, created, store, reader, built>>

\* GetMissingPack that gives every pack the caller's keys, not what the
\* pack before it returned.
GetMissingPackAllKeys ==
    /\ query.pc = "loop"
    /\ query.i <= Len(store.packs)
    /\ LET missing == packgetmissing(dir, store.packs[query.i], query.keys)
       IN  query' = [query EXCEPT
                        !.missing = missing,
                        !.i = @ + 1,
                        !.asked = Append(@, [pack |-> query.i,
                                             given |-> query.keys,
                                             got |-> missing])]
    /\ UNCHANGED <<dir, writer, created, store, reader, built>>

\* Lines 64-65 for the next pack of self.packs.
GetMissingPack ==
    /\ query.pc = "loop"
    /\ query.i <= Len(store.packs)
    /\ LET missing == packgetmissing(dir, store.packs[query.i], query.missing)
       IN  query' = [query EXCEPT
                        !.missing = missing,
                        !.i = @ + 1,
                        !.asked = Append(@, [pack |-> query.i,
                                             given |-> query.missing,
                                             got |-> missing])]
    /\ UNCHANGED <<dir, writer, created, store, reader, built>>

\* Line 67
GetMissingReturn ==
    /\ query.pc = "loop"
    /\ query.i > Len(store.packs)
    /\ query' = [query EXCEPT !.pc = "returned"]
    /\ UNCHANGED <<dir, writer, created, store, reader, built>>

(***************************************************************************)
(* basepack.__init__ on its own, a step for each block of the constructor. *)
(***************************************************************************)
\* basepack(path) is called with the path writer w's close returned:
\* lines 75-77 keep the path and derive the two file names from it.
ReaderNew(w) ==
    /\ writer[w].result # None
    /\ reader = NewReader(None)
    /\ reader' = NewReader(writer[w].result)
    /\ UNCHANGED <<dir, writer, created, store, query, built>>

ReaderOpen ==
    /\ reader.status = "new"
    /\ reader' = readeropen(dir, reader)
    /\ UNCHANGED <<dir, writer, created, store, query, built>>

ReaderCheckData ==
    /\ reader.status = "mapped"
    /\ reader' = readercheckdata(dir, reader)
    /\ UNCHANGED <<dir, writer, created, store, query, built>>

ReaderCheckIndex ==
    /\ reader.status = "dataversion"
    /\ reader' = readercheckindex(dir, reader)
    /\ UNCHANGED <<dir, writer, created, store, query, built>>

ReaderLoad ==
    /\ reader.status = "indexversion"
    /\ reader' = readerload(dir, reader)
    /\ UNCHANGED <<dir, writer, created, store, query, built>>

\* The steps of one writer.  No store reads the directory here, so the
\* time close stamps on the files is the one they were made at.
WriterStep(w) ==
    \/ New(w)
    \/ \E data \in Chunks : WriteRaw(w, data)
    \/ \E node \in SpecNodes, data \in Chunks : Add(w, node, data)
    \/ \E ledger \in BOOLEAN : Close(w, ledger, 1)
    \/ CloseAgain(w)
    \/ CloseUnlinkPack(w)
    \/ CloseUnlinkIdx(w)
    \/ CloseRenamePack(w)
    \/ CloseRenameIdx(w)
    \/ ExitNormal(w, 1)
    \/ Raise(w)
    \/ ExitUnlinkPack(w)
    \/ ExitUnlinkIdx(w)

NoQuery == [pc |-> "idle", keys |-> {}, missing |-> {}, i |-> 0,
            asked |-> <<>>]

Init ==
    /\ dir = <<>>
    /\ writer = [w \in Writers |-> NoWriter]
    /\ created = <<>>
    /\ built = NoBuilt
    /\ store = NoStore
    /\ query = NoQuery
    /\ reader = NewReader(0)

Next == \E w \in Writers : WriterStep(w)

Spec == Init /\ [][Next]_vars

(***************************************************************************)
(* A directory that holds packs published earlier.  The data file of a     *)
(* pack made of `nodes` holds the version byte and a byte for each node.   *)
(***************************************************************************)
PackData(nodes) ==
    LET sorted == SortedNodes(nodes)
    IN  <<VERSION>> \o [i \in 1..Len(sorted) |-> sorted[i][Len(sorted[i])]]

\* The directory d after a writer given `nodes` has published its pack.
Published(d, nodes, mtime) ==
    LET sha == hexdigest(PackData(nodes))
    IN  (FileName(sha, PACKSUFFIX) :>
             [content |-> PackData(nodes), mtime |-> mtime])
        @@ (FileName(sha, INDEXSUFFIX) :>
             [content |-> writeindex(nodes), mtime |-> mtime])
        @@ d

RECURSIVE DirOf(_, _)
DirOf(packs, mtimes) ==
    IF packs = {} THEN <<>>
    ELSE LET nodes == CHOOSE p \in packs : TRUE
         IN  Published(DirOf(packs \ {nodes}, mtimes), nodes, mtimes[nodes])

\* The nodes of the packs and of the queries.
QueryNodes == {<<0, 1>>, <<0, 2>>, <<1, 3>>}
PackSets == {ps \in SUBSET (SUBSET QueryNodes \ {{}}) : Cardinality(ps) <= MaxPacks}
Directories == UNION {{DirOf(ps, mtimes) : mtimes \in [ps -> Times]} : ps \in PackSets}

\* basepackstore.__init__ run to its end on a directory nothing writes to.
RECURSIVE OpenAll(_, _)
OpenAll(d, queue) ==
    IF queue = <<>> THEN <<>>
    ELSE <<getpack(d, Head(queue).stem)>> \o OpenAll(d, Tail(queue))

StoreOf(d) ==
    LET files == {[mtime |-> d[n].mtime, filename |-> n] : n \in DOMAIN d}
    IN  [NoStore EXCEPT
            !.pc = "ready",
            !.files = files,
            !.packs = OpenAll(d, PairedIndexes(SortedReverse(files), DOMAIN d))]

(***************************************************************************)
(* SpecStore: getmissing calls on a store opened on a directory of packs.  *)
(***************************************************************************)
InitStore ==
    /\ dir \in Directories
    /\ writer = [w \in Writers |-> NoWriter]
    /\ created = <<>>
    /\ built = NoBuilt
    /\ store = StoreOf(dir)
    /\ query = NoQuery
    /\ reader = NewReader(0)

NextStore ==
    \/ \E keys \in SUBSET QueryNodes : GetMissingCall(keys)
    \/ GetMissingPack
    \/ GetMissingReturn

SpecStore == InitStore /\ [][NextStore]_vars

(***************************************************************************)
(* SpecOpen: a store is opened on a directory of packs nothing writes to,  *)
(* or on a path whose listing fails, and is queried.  The two files of a   *)
(* pack may have different modification times.                             *)
(***************************************************************************)
OpenPacks == {{<<0, 1>>}, {<<0, 2>>}, {<<0, 1>>, <<1, 3>>}}

\* d with the data file of the pack of `nodes` stamped mtime.
Touched(d, nodes, mtime) ==
    [d EXCEPT ![FileName(hexdigest(PackData(nodes)), PACKSUFFIX)].mtime = mtime]

RECURSIVE TouchedAll(_, _, _)
TouchedAll(d, packs, mtimes) ==
    IF packs = {} THEN d
    ELSE LET nodes == CHOOSE p \in packs : TRUE
         IN  Touched(TouchedAll(d, packs \ {nodes}, mtimes), nodes,
                     mtimes[nodes])

OpenDirectories ==
    UNION {{TouchedAll(DirOf(ps, idxtimes), ps, packtimes) :
                idxtimes \in [ps -> Times], packtimes \in [ps -> Times]} :
           ps \in {qs \in SUBSET OpenPacks : Cardinality(qs) <= MaxPacks}}

InitOpen ==
    /\ dir \in OpenDirectories
    /\ writer = [w \in Writers |-> NoWriter]
    /\ created = <<>>
    /\ built = NoBuilt
    /\ store = NoStore
    /\ query = NoQuery
    /\ reader = NewReader(0)

NextOpen ==
    \/ StoreListBegin
    \/ \E errno \in Errnos : StoreListError(errno)
    \/ \E filename \in DOMAIN dir : StoreListEntry(filename)
    \/ StoreListEnd
    \/ StoreOpenPack
    \/ \E keys \in {QueryNodes, {<<0, 1>>}} : GetMissingCall(keys)
    \/ GetMissingPack
    \/ GetMissingReturn

SpecOpen == InitOpen /\ [][NextOpen]_vars

(***************************************************************************)
(* SpecScan: a store is opened on a directory while a writer works in it.  *)
(***************************************************************************)
InitScan ==
    /\ dir \in UNION {{DirOf(ps, mtimes) : mtimes \in [ps -> Times]} :
                          ps \in {{}, {{<<0, 1>>}}, {{<<1, 3>>}}}}
    /\ writer = [w \in Writers |-> NoWriter]
    /\ created = <<>>
    /\ built = NoBuilt
    /\ store = NoStore
    /\ query = NoQuery
    /\ reader = NewReader(0)

\* The writer is used the plain way: entries are added, and the with
\* statement ends, with or without an error.
NextScan ==
    \/ New(1)
    \/ \E node \in SpecNodes : Add(1, node, <<1>>)
    \/ \E mtime \in Times : ExitNormal(1, mtime)
    \/ Raise(1)
    \/ CloseUnlinkPack(1)
    \/ CloseUnlinkIdx(1)
    \/ CloseRenamePack(1)
    \/ CloseRenameIdx(1)
    \/ ExitUnlinkPack(1)
    \/ ExitUnlinkIdx(1)
    \/ StoreListBegin
    \/ \E filename \in DOMAIN dir : StoreListEntry(filename)
    \/ StoreListEnd
    \/ StoreOpenPack

SpecScan == InitScan /\ [][NextScan]_vars

(***************************************************************************)
(* SpecIndex: one writer, given any set of nodes, closes its pack.         *)
(***************************************************************************)
IndexNodes ==
    {<<0, 1>>, <<0, 2>>, <<1, 0>>, <<3, 3>>, <<3, 255>>, <<254, 0>>, <<255, 255>>}

\* The bytes of a data file after the version byte and `count` entries of
\* one byte each.
DataOf(count) == <<VERSION>> \o [i \in 1..count |-> 1]

\* Writer 1 in its with body after add was called for each of `nodes`.
Given(nodes) ==
    /\ writer = [w \in Writers |->
                    IF w = 1
                    THEN [NoWriter EXCEPT !.pc = "body",
                                          !.sha = DataOf(Cardinality(nodes)),
                                          !.writes = 1 + Cardinality(nodes),
                                          !.entries = nodes]
                    ELSE NoWriter]
    /\ dir = writefile(mkstemp(mkstemp(<<>>, 1, PACKTMPSUFFIX, 1),
                               1, INDEXTMPSUFFIX, 1),
                       packpath(1), DataOf(Cardinality(nodes)), 1)

InitIndex ==
    /\ \E nodes \in SUBSET IndexNodes : Given(nodes)
    /\ created = <<>>
    /\ built = NoBuilt
    /\ store = NoStore
    /\ query = NoQuery
    /\ reader = NewReader(0)

NextIndex ==
    \/ \E mtime \in Times : ExitNormal(1, mtime)
    \/ CloseUnlinkPack(1)
    \/ CloseUnlinkIdx(1)
    \/ CloseRenamePack(1)
    \/ CloseRenameIdx(1)

SpecIndex == InitIndex /\ [][NextIndex]_vars

(***************************************************************************)
(* SpecCutoff: one writer, given as many nodes as the cutoff or a few more *)
(* or fewer, begins close.  The step ends when writeindex has written the  *)
(* header; the table and the entries of so many nodes are not built.       *)
(***************************************************************************)
\* The first count two-byte nodes.
NodesUpTo(count) == {<<i \div 256, i % 256>> : i \in 0..(count - 1)}

CutoffCounts ==
    (SMALLFANOUTCUTOFF - CutoffSpan)..(SMALLFANOUTCUTOFF + CutoffSpan)

\* close as far as writeindex's header: line 176, lines 198-202 and
\* line 229.
WriteIndexHeader(w) ==
    /\ writer[w].pc = "body"
    /\ ~writer[w].idxfpclosed
    /\ LET params == WriteIndexParams(Cardinality(writer[w].entries))
       IN  dir' = [dir EXCEPT ![idxpath(w)].content.header = writeheader(params)]
    /\ writer' = [writer EXCEPT ![w].packfpclosed = TRUE,
                                ![w].pc = "writeindex_header"]
    /\ UNCHANGED <<created, store, query, reader, built>>

InitCutoff ==
    /\ \E count \in CutoffCounts : Given(NodesUpTo(count))
    /\ created = <<>>
    /\ built = NoBuilt
    /\ store = NoStore
    /\ query = NoQuery
    /\ reader = NewReader(0)

NextCutoff == WriteIndexHeader(1)

SpecCutoff == InitCutoff /\ [][NextCutoff]_vars

(***************************************************************************)
(* SpecRoundTrip: one writer, given a few nodes, or as many as the cutoff, *)
(* or one more, closes its pack, and a reader is constructed on the path   *)
(* close returned.                                                         *)
(***************************************************************************)
RoundTripNodes ==
    SUBSET IndexNodes
    \cup {NodesUpTo(SMALLFANOUTCUTOFF), NodesUpTo(SMALLFANOUTCUTOFF + 1)}

InitRoundTrip ==
    /\ \E nodes \in RoundTripNodes : Given(nodes)
    /\ created = <<>>
    /\ built = NoBuilt
    /\ store = NoStore
    /\ query = NoQuery
    /\ reader = NewReader(None)

NextRoundTrip ==
    \/ \E mtime \in Times : ExitNormal(1, mtime)
    \/ CloseUnlinkPack(1)
    \/ CloseUnlinkIdx(1)
    \/ CloseRenamePack(1)
    \/ CloseRenameIdx(1)
    \/ ReaderNew(1)
    \/ reader.path # None /\ ReaderOpen
    \/ ReaderCheckData
    \/ ReaderCheckIndex
    \/ ReaderLoad

SpecRoundTrip == InitRoundTrip /\ [][NextRoundTrip]_vars

(***************************************************************************)
(* SpecFault: one writer in a directory whose file operations may fail.    *)
(***************************************************************************)
NextFault ==
    \/ New(1)
    \/ \E node \in SpecNodes : Add(1, node, <<1>>)
    \/ \E data \in Chunks : WriteRaw(1, data)
    \/ \E ledger \in BOOLEAN : Close(1, ledger, 1)
    \/ CloseAgain(1)
    \/ ExitNormal(1, 1)
    \/ Raise(1)
    \/ CloseUnlinkPack(1)
    \/ CloseUnlinkIdx(1)
    \/ CloseRenamePack(1)
    \/ CloseRenameIdx(1)
    \/ ExitUnlinkPack(1)
    \/ ExitUnlinkIdx(1)
    \/ \E caller \in {"body", "exit"}, header \in BOOLEAN :
           WriteIndexFail(1, caller, header)
    \/ CloseUnlinkFail(1)
    \/ CloseRenamePackFail(1)
    \/ CloseRenameIdxFail(1)
    \/ ExitUnlinkPackFail(1)
    \/ ExitUnlinkIdxFail(1)

SpecFault == Init /\ [][NextFault]_vars

(***************************************************************************)
(* SpecParams: indexparams objects are constructed with any prefix size.   *)
(***************************************************************************)
PrefixSizes == (0 - MaxPrefix)..MaxPrefix

\* indexparams(prefixsize) called by itself: built holds the argument and
\* the object made, or the error raised.
BuildParams(prefixsize) ==
    /\ built' = [pc |-> "built", prefixsize |-> prefixsize,
                 value |-> indexparams(prefixsize)]
    /\ UNCHANGED <<dir, writer, created, store, query, reader>>

InitParams ==
    /\ dir = <<>>
    /\ writer = [w \in Writers |-> NoWriter]
    /\ created = <<>>
    /\ built = NoBuilt
    /\ store = NoStore
    /\ query = NoQuery
    /\ reader = NewReader(0)

NextParams == \E prefixsize \in PrefixSizes : BuildParams(prefixsize)

SpecParams == InitParams /\ [][NextParams]_vars

(***************************************************************************)
(* SpecReader: a reader is constructed on a pack whose headers may be      *)
(* those of another format version.                                        *)
(***************************************************************************)
VersionBytes == {VERSION, 1, 255}
ConfigBytes == {0, 1, 127, 128, 255}
ReaderNodes == {<<0, 1>>, <<255, 255>>}

\* The pack of `nodes` with the given header bytes.
PackWith(nodes, dataversion, indexversion, config) ==
    LET d == Published(<<>>, nodes, 1)
        sha == hexdigest(PackData(nodes))
    IN  [d EXCEPT
            ![FileName(sha, PACKSUFFIX)].content[1] = dataversion,
            ![FileName(sha, INDEXSUFFIX)].content.header =
                <<indexversion, config>>]

InitReader ==
    /\ \E nodes \in SUBSET ReaderNodes \ {{}}, dataversion \in VersionBytes,
          indexversion \in VersionBytes, config \in ConfigBytes :
           /\ dir = PackWith(nodes, dataversion, indexversion, config)
           /\ reader = NewReader(hexdigest(PackData(nodes)))
    /\ writer = [w \in Writers |-> NoWriter]
    /\ created = <<>>
    /\ built = NoBuilt
    /\ store = NoStore
    /\ query = NoQuery

NextReader ==
    \/ ReaderOpen
    \/ ReaderCheckData
    \/ ReaderCheckIndex
    \/ ReaderLoad

SpecReader == InitReader /\ [][NextReader]_vars

(***************************************************************************)
(* The claims.                                                             *)
(***************************************************************************)
PublishedNames(d) == {n \in DOMAIN d : ~IsTemp(n)}
IndexWritten(d) ==
    {n \in DOMAIN d : /\ n.suffix \in {INDEXSUFFIX, INDEXTMPSUFFIX}
                      /\ d[n].content # EmptyIndex}
\* The fanout table an index file holds, as numbers.
TableOf(content) ==
    [i \in 1..Len(content.rawfanout) |-> UnpackU32(content.rawfanout[i])]
\* The number of nodes of K that sort before k.
Rank(k, K) == Cardinality({m \in K : NodeLess(m, k)})
\* The nodes a pack's index file holds.
PackNodes(d, pack) ==
    LET rawindex == d[readerindexpath(pack)].content.rawindex
    IN  {rawindex[i].node : i \in 1..Len(rawindex)}

\* C1: a hash-named index file is in the directory only if the hash-named
\* data file of the same stem is, and a writer about to rename its index
\* file has its data file in place under the hash name.
C1_IndexOnlyAfterData ==
    /\ \A n \in DOMAIN dir :
           n.suffix = INDEXSUFFIX => FileName(n.stem, PACKSUFFIX) \in DOMAIN dir
    /\ \A w \in Writers :
           writer[w].pc = "close_rename_idx"
               => /\ FileName(writer[w].digest, PACKSUFFIX) \in DOMAIN dir
                  /\ packpath(w) \notin DOMAIN dir

\* One writer has published a pack and another, with the same digest, has
\* renamed its data file over it and not yet its index file.
C1_Witness ==
    \E w1, w2 \in Writers :
        /\ w1 # w2
        /\ writer[w1].result # None
        /\ writer[w2].pc = "close_rename_idx"
        /\ writer[w2].digest = writer[w1].result
        /\ FileName(writer[w1].result, INDEXSUFFIX) \in DOMAIN dir

\* C2: the store's constructor never fails on the directory a writer works
\* in; every pack it opened or is about to open has its index file and its
\* data file in the listing, under the index and pack suffixes.
C2_NoOrphanOpened ==
    LET listed == {f.filename : f \in store.files}
    IN  /\ store.pc \in {"start", "listing", "opening", "ready"}
        /\ \A i \in 1..Len(store.packs) :
               /\ store.packs[i].status = "ready"
               /\ readerindexpath(store.packs[i]) \in listed
               /\ readerpackpath(store.packs[i]) \in listed
        /\ \A i \in 1..Len(store.queue) :
               /\ store.queue[i].suffix = INDEXSUFFIX
               /\ store.queue[i] \in listed
               /\ FileName(store.queue[i].stem, PACKSUFFIX) \in listed

\* The listing caught the writer between its two renames: it holds a
\* hash-named data file without its index file, and a temporary file, and
\* the store was made without opening either.
C2_Witness ==
    LET listed == {f.filename : f \in store.files}
    IN  /\ store.pc = "ready"
        /\ \E n \in listed :
               /\ n.suffix = PACKSUFFIX
               /\ FileName(n.stem, INDEXSUFFIX) \notin listed
               /\ \A i \in 1..Len(store.packs) : store.packs[i].path # n.stem
        /\ \E n \in listed : IsTemp(n)

\* C3: a writer closed with no entries returned None and left neither of
\* its temporary files; its close only removes names from the directory and
\* tells the ledger nothing; a writer with no entries never reaches the
\* renames, and no published index file has zero entries.
C3_EmptyPack ==
    /\ [](\A w \in Writers :
             /\ (writer[w].closed /\ writer[w].entries = {})
                    => /\ writer[w].result = None
                       /\ packpath(w) \notin DOMAIN dir
                       /\ idxpath(w) \notin DOMAIN dir
             /\ writer[w].pc \in {"close_rename_pack", "close_rename_idx"}
                    => writer[w].entries # {})
    /\ [](\A n \in DOMAIN dir :
             n.suffix = INDEXSUFFIX => Len(dir[n].content.rawindex) > 0)
    /\ [][\A w \in Writers :
             (/\ writer[w].pc \in {"close_unlink_pack", "close_unlink_idx"}
              /\ writer'[w] # writer[w])
                 => /\ DOMAIN dir' \subseteq DOMAIN dir
                    /\ DOMAIN dir' # DOMAIN dir
                    /\ created' = created]_vars

\* A writer that was given bytes and no entry has been closed.
C3_Witness ==
    \E w \in Writers :
        /\ writer[w].closed
        /\ writer[w].entries = {}
        /\ writer[w].writes > 1
        /\ writer[w].result = None

\* C4: once the with statement of a writer that never entered close has
\* ended with the error, neither temporary file is in the directory; and no
\* step of a writer that has not entered close adds, removes or changes a
\* published file.
C4_UncleanShutdown ==
    /\ [](\A w \in Writers :
             (/\ writer[w].pc = "done"
              /\ writer[w].outcome = "raised"
              /\ ~writer[w].packfpclosed)
                 => /\ packpath(w) \notin DOMAIN dir
                    /\ idxpath(w) \notin DOMAIN dir)
    /\ [][\A w \in Writers :
             (/\ ~writer[w].packfpclosed
              /\ ~writer'[w].packfpclosed
              /\ writer'[w] # writer[w])
                 => /\ PublishedNames(dir') = PublishedNames(dir)
                    /\ \A n \in PublishedNames(dir) : dir'[n] = dir[n]]_vars

\* A writer that was given an entry, and never closed, has left its with
\* statement with the error.
C4_Witness ==
    \E w \in Writers :
        /\ writer[w].pc = "done"
        /\ writer[w].outcome = "raised"
        /\ ~writer[w].packfpclosed
        /\ writer[w].writes > 1
        /\ writer[w].entries # {}

\* C5: for a writer closed with the nodes K, one at least: the locations
\* writeindex computes give every node of K the offset rank * INDEXENTRYLENGTH,
\* the entry at that offset is the node's, the fanout value of a node's
\* bucket is the location of the least node of K in that bucket, and the
\* lookup on the published pack finds the nodes of K and no other.
C5_RoundTrip ==
    LET K == writer[1].entries
        locations == WriteIndexLocate(K).locations
        LeastInBucket(k) ==
            CHOOSE m \in K :
                /\ m[1] = k[1]
                /\ \A o \in K : o[1] = k[1] => (o = m \/ NodeLess(m, o))
    IN  (writer[1].idxfpclosed /\ K # {})
            => /\ DOMAIN locations = K
               /\ \A k \in K : locations[k] = Rank(k, K) * INDEXENTRYLENGTH
               /\ \A n \in IndexWritten(dir) :
                      /\ Len(dir[n].content.rawindex) = Cardinality(K)
                      /\ \A k \in K :
                             /\ dir[n].content.rawindex[Rank(k, K) + 1].node = k
                             /\ TableOf(dir[n].content)[k[1] + 1]
                                    = locations[LeastInBucket(k)]
               /\ writer[1].result # None
                      => LET pack == basepackinit(dir, writer[1].result)
                         IN  /\ pack.status = "ready"
                             /\ \A k \in IndexNodes :
                                    packfind(dir, pack, k) <=> k \in K

\* A pack is published whose nodes include two of one bucket, and not
\* every node of the model.
C5_Witness ==
    /\ writer[1].result # None
    /\ {<<3, 3>>, <<3, 255>>, <<255, 255>>} \subseteq writer[1].entries
    /\ <<0, 1>> \notin writer[1].entries
    /\ <<254, 0>> \notin writer[1].entries

\* C6: when getmissing returns, what it returns is the keys no loaded pack
\* holds; the packs were asked once each, in the order of self.packs, each
\* given what the pack before it returned (the first, the caller's keys) and
\* returning no more than it was given; the packs taken in any other
\* order leave the same keys; with no pack the keys come back unchanged.
C6_Cascade ==
    LET n == Len(store.packs)
        held == UNION {PackNodes(dir, store.packs[i]) : i \in 1..n}
    IN  /\ query.pc \in {"loop", "returned"}
            => /\ query.missing \subseteq query.keys
               /\ Len(query.asked) = query.i - 1
               /\ \A i \in 1..Len(query.asked) :
                      /\ query.asked[i].pack = i
                      /\ query.asked[i].given
                             = IF i = 1 THEN query.keys
                               ELSE query.asked[i - 1].got
                      /\ query.asked[i].got \subseteq query.asked[i].given
        /\ query.pc = "returned"
            => /\ query.missing = query.keys \ held
               /\ Len(query.asked) = n
               /\ \A order \in Permutations(1..n) :
                      query.missing
                          = getmissing(dir, [i \in 1..n |-> store.packs[order[i]]],
                                       query.keys)
               /\ n = 0 => query.missing = query.keys

\* The store holds a pack of <<0, 1>> and then a pack of <<0, 2>>, and was
\* asked for the three nodes: <<1, 3>> is what is missing.
C6_Witness ==
    /\ query.pc = "returned"
    /\ Len(store.packs) = 2
    /\ PackNodes(dir, store.packs[1]) = {<<0, 1>>}
    /\ PackNodes(dir, store.packs[2]) = {<<0, 2>>}
    /\ query.keys = QueryNodes
    /\ query.missing = {<<1, 3>>}

\* C7: the bytes fed to a writer's hash are the bytes of its data file, the
\* version byte first; the stem of a published data file is the digest of
\* its bytes; a writer that published returned that digest and both files
\* are under it; two writers that wrote the same bytes returned the same
\* path.
C7_IdempotentIdentity ==
    /\ \A w \in Writers :
           /\ writer[w].pc # "start" => writer[w].sha[1] = VERSION
           /\ packpath(w) \in DOMAIN dir
                  => dir[packpath(w)].content = writer[w].sha
           /\ writer[w].result # None
                  => /\ writer[w].result = hexdigest(writer[w].sha)
                     /\ FileName(writer[w].result, INDEXSUFFIX) \in DOMAIN dir
                     /\ FileName(writer[w].result, PACKSUFFIX) \in DOMAIN dir
                     /\ dir[FileName(writer[w].result, PACKSUFFIX)].content
                            = writer[w].sha
    /\ \A n \in DOMAIN dir :
           n.suffix = PACKSUFFIX => n.stem = hexdigest(dir[n].content)
    /\ \A w1, w2 \in Writers :
           (/\ writer[w1].result # None
            /\ writer[w2].result # None
            /\ writer[w1].sha = writer[w2].sha)
               => writer[w1].result = writer[w2].result

\* Two writers wrote the same bytes in different numbers of writeraw calls
\* and both published.
C7_Witness ==
    \E w1, w2 \in Writers :
        /\ writer[w1].result # None
        /\ writer[w2].result # None
        /\ writer[w1].sha = writer[w2].sha
        /\ writer[w1].writes # writer[w2].writes
        /\ writer[w1].result = writer[w2].result

\* C8: the fanout table of every index file written has a value for each
\* bucket of the params, no value below that of an earlier bucket, no
\* serialized EMPTYFANOUT, and for a bucket with no
\* node the value of the nearest earlier bucket with one, or 0.
C8_FanoutMonotone ==
    LET K == writer[1].entries
        Filled(b) == \E k \in K : k[1] = b
    IN  \A n \in IndexWritten(dir) :
            LET table == TableOf(dir[n].content)
            IN  /\ Len(table) = indexparams(SMALLFANOUTPREFIX).fanoutcount
                /\ \A i \in 1..Len(table) :
                       \A j \in (i + 1)..Len(table) : table[i] <= table[j]
                /\ \A i \in 1..Len(table) :
                       dir[n].content.rawfanout[i] # PackU32(EMPTYFANOUT)
                /\ \A b \in 0..(Len(table) - 1) :
                       ~Filled(b)
                           => LET earlier == {c \in 0..(b - 1) : Filled(c)}
                              IN  table[b + 1] =
                                      IF earlier = {} THEN 0
                                      ELSE table[(CHOOSE c \in earlier :
                                                     \A e \in earlier : e <= c) + 1]

\* An index is written whose first bucket is empty, with empty buckets
\* between two filled ones and after the last.
C8_Witness ==
    /\ IndexWritten(dir) # {}
    /\ writer[1].entries = {<<1, 0>>, <<3, 3>>, <<3, 255>>, <<254, 0>>}

\* C9: when writeindex has written the header for a writer of n entries:
\* for n at most 8192 the params have prefix width 1 and 256 buckets and
\* bit 7 of the config byte is clear; for n of 8193 or more the prefix
\* width is 2, the buckets 65536, and bit 7 is set.
C9_FanoutBoundary ==
    \A w \in Writers :
        writer[w].pc = "writeindex_header"
            => LET n == Cardinality(writer[w].entries)
                   params == WriteIndexParams(n)
                   header == dir[idxpath(w)].content.header
                   bit7 == (header[2] \div 128) % 2
               IN  /\ header[1] = VERSION
                   /\ n <= 8192 => /\ params.fanoutprefix = 1
                                   /\ params.fanoutcount = 256
                                   /\ bit7 = 0
                   /\ n >= 8193 => /\ params.fanoutprefix = 2
                                   /\ params.fanoutcount = 65536
                                   /\ bit7 = 1

\* The header is written for a writer of exactly 8192 entries, with bit 7
\* clear.
C9_Witness ==
    /\ writer[1].pc = "writeindex_header"
    /\ Cardinality(writer[1].entries) = 8192
    /\ dir[idxpath(1)].content.header = <<VERSION, 0>>

\* C10: a reader whose constructor has ended is ready only if both version
\* bytes are VERSION; if either is not, the constructor ended with
\* RuntimeError, and at no point of it were params or a fanout table set.
C10_VersionValidation ==
    LET dataversion == dir[readerpackpath(reader)].content[1]
        indexversion == dir[readerindexpath(reader)].content.header[1]
        ended == reader.status \notin {"new", "mapped", "dataversion",
                                       "indexversion"}
    IN  /\ reader.status = "ready"
            => (dataversion = VERSION /\ indexversion = VERSION)
        /\ (dataversion # VERSION \/ indexversion # VERSION)
            => /\ reader.params = NoParams
               /\ reader.fanouttable = <<>>
               /\ ended => reader.status = "RuntimeError"

\* The data file has the right version and the index file another: the
\* constructor has ended with the error.
C10_Witness ==
    /\ dir[readerpackpath(reader)].content[1] = VERSION
    /\ dir[readerindexpath(reader)].content.header[1] # VERSION
    /\ reader.status = "RuntimeError"

\* C11: the step in which close is called a second time, on a writer whose
\* first close had returned, raises into the with body, leaves the
\* directory as it was and tells the ledger nothing; a writer whose close
\* was called twice leaves its with statement with the error, its result
\* the one the first close gave.
C11_CloseTwice ==
    /\ [][\A w \in Writers :
             (writer[w].closes = 1 /\ writer'[w].closes = 2)
                 => /\ writer[w].closed
                    /\ writer'[w].pc = "exit_unlink_pack"
                    /\ writer'[w].result = writer[w].result
                    /\ dir' = dir
                    /\ created' = created]_vars
    /\ [](\A w \in Writers :
             /\ writer[w].closes <= 2
             /\ writer[w].closes = 2
                    => /\ writer[w].pc \in {"exit_unlink_pack", "exit_unlink_idx",
                                            "done"}
                       /\ writer[w].pc = "done" => writer[w].outcome = "raised")

\* close was called twice on a writer that had published with a ledger,
\* and on another that had discarded an empty pack.
C11_Witness ==
    \E w1, w2 \in Writers :
        /\ writer[w1].closes = 2
        /\ writer[w1].result # None
        /\ created # <<>>
        /\ writer[w2].closes = 2
        /\ writer[w2].result = None
        /\ writer[w2].entries = {}

\* C12: a store whose listing raised ENOENT is made, with no pack, and its
\* getmissing returns the keys it was given; a store whose listing raised
\* another error is not made: the constructor ended with the OSError, no
\* pack was opened and nothing can be asked of it.
C12_MissingDirectory ==
    /\ store.errno = ENOENT
           => /\ store.pc = "ready"
              /\ store.packs = <<>>
              /\ query.pc = "returned" => /\ query.missing = query.keys
                                          /\ query.asked = <<>>
    /\ store.errno \notin {0, ENOENT}
           => /\ store.pc = "OSError"
              /\ store.packs = <<>>
              /\ query = NoQuery

\* A store opened on a directory that does not exist answered a query for
\* three keys.
C12_Witness ==
    /\ store.errno = ENOENT
    /\ query.pc = "returned"
    /\ query.keys = QueryNodes
    /\ query.missing = QueryNodes

\* C13: an indexparams object made with prefix size 1 has 256 buckets, a
\* table of 1024 bytes and its entries at 1026; with prefix size 2, 65536
\* buckets, 262144 bytes and 262146; in both cases the size is four times
\* the count and the start INDEXVERSIONSIZE past the size.  With any other
\* prefix size the constructor raises ValueError.
C13_FanoutParams ==
    built.pc = "built"
        => IF built.prefixsize \in {1, 2}
           THEN /\ built.value.fanoutprefix = built.prefixsize
                /\ built.value.fanoutcount
                       = (IF built.prefixsize = 1 THEN 256 ELSE 65536)
                /\ built.value.fanoutsize = built.value.fanoutcount * 4
                /\ built.value.fanoutsize
                       = (IF built.prefixsize = 1 THEN 1024 ELSE 262144)
                /\ built.value.indexstart
                       = INDEXVERSIONSIZE + built.value.fanoutsize
           ELSE built.value = ValueError

\* The params of the large fanout have been made.
C13_Witness ==
    /\ built.pc = "built"
    /\ built.prefixsize = 2
    /\ built.value.fanoutcount = 65536
    /\ built.value.indexstart = 262146

\* C14 as stated: in every index file written, the offset of the entry of
\* each node lies from the fanout value of the node's bucket up to, and not
\* at, the fanout value of the next bucket, or the end of the entries when
\* the bucket is the last.
C14_NextBucketBound ==
    LET K == writer[1].entries
        endofentries == Cardinality(K) * INDEXENTRYLENGTH
    IN  \A n \in IndexWritten(dir) :
            LET table == TableOf(dir[n].content)
            IN  \A k \in K :
                    LET offset == Rank(k, K) * INDEXENTRYLENGTH
                        upper == IF k[1] + 1 = Len(table) THEN endofentries
                                 ELSE table[k[1] + 2]
                    IN  table[k[1] + 1] <= offset /\ offset < upper

\* C14 as amended: in every index file written, the offset of the entry of
\* each node lies from the fanout value of the node's bucket up to, and not
\* at, the value of the first later bucket whose value is another, or the
\* end of the entries when no later bucket has another value.
C14_SearchRange ==
    LET K == writer[1].entries
        endofentries == Cardinality(K) * INDEXENTRYLENGTH
    IN  \A n \in IndexWritten(dir) :
            LET table == TableOf(dir[n].content)
            IN  \A k \in K :
                    LET offset == Rank(k, K) * INDEXENTRYLENGTH
                        start == table[k[1] + 1]
                        later == {i \in (k[1] + 2)..Len(table) :
                                     table[i] # start}
                        upper == IF later = {} THEN endofentries
                                 ELSE table[CHOOSE i \in later :
                                                \A j \in later : i <= j]
                    IN  /\ start <= offset
                        /\ offset < upper
                        /\ dir[n].content.rawindex[(offset \div INDEXENTRYLENGTH) + 1].node
                               = k

\* An index is written for nodes in two buckets next to each other, in a
\* bucket followed by empty ones, and in the last bucket.
C14_Witness ==
    /\ IndexWritten(dir) # {}
    /\ writer[1].entries = {<<0, 1>>, <<1, 0>>, <<3, 3>>, <<3, 255>>, <<255, 255>>}

\* C15: once close has been left, by return or by an error, for a writer
\* with an entry at least, the directory holds the data file under the
\* digest of the writer's bytes exactly if it holds the index file under
\* it.
C15_NoPartialPack ==
    \A w \in Writers :
        (/\ writer[w].entries # {}
         /\ writer[w].closes >= 1
         /\ writer[w].pc \in {"body", "exit_unlink_pack", "exit_unlink_idx",
                               "done"})
            => (FileName(hexdigest(writer[w].sha), PACKSUFFIX) \in DOMAIN dir
                    <=> FileName(hexdigest(writer[w].sha), INDEXSUFFIX)
                            \in DOMAIN dir)

\* C16: when __exit__ has ended for a with body that raised, unlink was
\* called with both temporary paths, and the caller has the error of the
\* with body.
C16_BestEffortCleanup ==
    \A w \in Writers :
        (writer[w].pc = "done" /\ writer[w].tried # {})
            => /\ writer[w].tried = {packpath(w), idxpath(w)}
               /\ writer[w].outcome = "raised"

\* The states a writer ends in: Finalized when close returned the path of
\* the pack, Discarded when close returned None, Aborted when the with
\* statement ended with an error and no close had returned.
Finalized(w) ==
    /\ writer[w].closed
    /\ writer[w].result # None
    /\ FileName(writer[w].result, PACKSUFFIX) \in DOMAIN dir
    /\ FileName(writer[w].result, INDEXSUFFIX) \in DOMAIN dir
Discarded(w) == writer[w].closed /\ writer[w].result = None
Aborted(w) ==
    /\ ~writer[w].closed
    /\ writer[w].result = None
    /\ writer[w].outcome = "raised"

\* C17 as stated: when the with statement has ended without an error the
\* writer was closed once and is Finalized or Discarded; when it has ended
\* with an error the writer is Aborted; either way neither temporary file
\* is in the directory.
C17_ExitStates ==
    \A w \in Writers :
        writer[w].pc = "done"
            => /\ writer[w].outcome = "returned"
                      => /\ writer[w].closes = 1
                         /\ Finalized(w) \/ Discarded(w)
               /\ writer[w].outcome = "raised" => Aborted(w)
               /\ packpath(w) \notin DOMAIN dir
               /\ idxpath(w) \notin DOMAIN dir

\* C17 as amended: when the with statement has ended without an error the
\* writer was closed once and is Finalized or Discarded; when it has ended
\* with an error the writer is Aborted if no close had returned, and
\* Finalized or Discarded as its close left it otherwise; either way
\* neither temporary file is in the directory.  __exit__ calls close
\* exactly when the with body ends without an error on a writer not yet
\* closed.
C17_EveryExitCleans ==
    /\ [](\A w \in Writers :
             writer[w].pc = "done"
                 => /\ writer[w].outcome \in {"returned", "raised"}
                    /\ writer[w].outcome = "returned"
                           => /\ writer[w].closes = 1
                              /\ Finalized(w) \/ Discarded(w)
                    /\ writer[w].outcome = "raised"
                           => IF writer[w].closed
                              THEN /\ writer[w].closes \in {1, 2}
                                   /\ Finalized(w) \/ Discarded(w)
                              ELSE /\ writer[w].closes = 0
                                   /\ Aborted(w)
                    /\ packpath(w) \notin DOMAIN dir
                    /\ idxpath(w) \notin DOMAIN dir)
    /\ [][\A w \in Writers :
             /\ (writer[w].pc = "body" /\ writer'[w].caller = "exit")
                    => (~writer[w].closed /\ writer'[w].closes = 1)
             /\ (writer[w].pc = "body" /\ writer'[w].pc = "done")
                    => (writer[w].closed /\ writer'[w].closes = writer[w].closes)
             /\ (writer[w].pc = "body" /\ writer'[w].pc = "exit_unlink_pack")
                    => created' = created]_vars

\* One writer was closed by __exit__ and is Finalized, the other closed
\* its empty pack itself before its with body raised.
C17_Witness ==
    \E w1, w2 \in Writers :
        /\ writer[w1].pc = "done"
        /\ writer[w1].outcome = "returned"
        /\ Finalized(w1)
        /\ writer[w2].pc = "done"
        /\ writer[w2].outcome = "raised"
        /\ Discarded(w2)
        /\ writer[w2].closes = 1

\* C18: the ledger is told only in the step of a close, called with a
\* ledger, whose rename of the index file succeeds, the data file having
\* been renamed: it is told the path that close returns, of a writer that
\* was not closed until then and is from then on.  So the ledger was told
\* no more often than there are writers that published, each path it was
\* told is that of such a writer, with entries, and no step of a close that
\* discards or fails, or of __exit__, tells it anything.
C18_LedgerNotification ==
    /\ [][created' # created
             => \E w \in Writers :
                    /\ writer[w].pc = "close_rename_idx"
                    /\ writer[w].ledger
                    /\ ~writer[w].closed
                    /\ writer'[w].closed
                    /\ writer'[w].result # None
                    /\ created' = Append(created, writer'[w].result)
                    /\ FileName(writer'[w].result, PACKSUFFIX) \in DOMAIN dir
                    /\ FileName(writer'[w].result, INDEXSUFFIX) \in DOMAIN dir'
                    /\ idxpath(w) \notin DOMAIN dir'
                    /\ packpath(w) \notin DOMAIN dir]_vars
    /\ [][\A w \in Writers : writer[w].closed => writer'[w].closed]_vars
    /\ [](/\ Len(created)
               <= Cardinality({w \in Writers :
                                  writer[w].closed /\ writer[w].result # None})
          /\ \A i \in 1..Len(created) :
                 \E w \in Writers :
                     /\ writer[w].closed
                     /\ writer[w].result = created[i]
                     /\ writer[w].entries # {})

\* The ledger was told the path of the pack the writer published.
C18_Witness ==
    /\ created # <<>>
    /\ writer[1].closed
    /\ created = <<writer[1].result>>
    /\ writer[1].pc = "done"

\* The modification time of the index file of a pack of the store.
IndexTime(pack) == dir[readerindexpath(pack)].mtime

\* C19: in a store that has been made, the packs are the pairs of the
\* directory, each once, and no pack has an index file newer than that of
\* a pack before it in self.packs; the packs waiting to be opened are no
\* newer than those opened; getmissing asks the packs in that order.
C19_FreshestFirst ==
    /\ \A i, j \in 1..Len(store.packs) :
           i < j => /\ IndexTime(store.packs[i]) >= IndexTime(store.packs[j])
                    /\ store.packs[i].path # store.packs[j].path
    /\ \A i \in 1..Len(store.packs) :
           \A j \in 1..Len(store.queue) :
               IndexTime(store.packs[i]) >= dir[store.queue[j]].mtime
    /\ (store.pc = "ready" /\ store.errno = 0)
           => {store.packs[i].path : i \in 1..Len(store.packs)}
                  = {n.stem : n \in {m \in DOMAIN dir :
                                        /\ m.suffix = INDEXSUFFIX
                                        /\ FileName(m.stem, PACKSUFFIX)
                                               \in DOMAIN dir}}
    /\ \A i, j \in 1..Len(query.asked) :
           i < j => IndexTime(store.packs[query.asked[i].pack])
                        >= IndexTime(store.packs[query.asked[j].pack])

\* Two packs are loaded and were queried: the first has the newer index
\* file and the older data file.
C19_Witness ==
    /\ store.pc = "ready"
    /\ Len(store.packs) = 2
    /\ query.pc = "returned"
    /\ IndexTime(store.packs[1]) > IndexTime(store.packs[2])
    /\ dir[readerpackpath(store.packs[1])].mtime
           < dir[readerpackpath(store.packs[2])].mtime
    /\ store.packs[1].path < store.packs[2].path
(***************************************************************************)
(* C20: header and fanout round trip.  The index of every pack the writer  *)
(* published begins with VERSION and a config byte whose bit 7 is set      *)
(* exactly when the writer chose the large fanout (it had more entries     *)
(* than SMALLFANOUTCUTOFF) and whose other seven bits are zero.  A reader  *)
(* constructed on that pack raises no error; once constructed its prefix   *)
(* width is the writer's, and its fanout table has exactly fanoutcount     *)
(* entries, each equal to the entry of the back-filled table the writer    *)
(* serialized.                                                             *)
(***************************************************************************)
C20_HeaderFanoutRoundTrip ==
    LET entries == writer[1].entries
        large == Cardinality(entries) > SMALLFANOUTCUTOFF
        chosen == IF large THEN indexparams(LARGEFANOUTPREFIX)
                  ELSE indexparams(SMALLFANOUTPREFIX)
    IN  /\ \A n \in PublishedNames(dir) :
               n.suffix = INDEXSUFFIX =>
                   LET header == dir[n].content.header
                   IN  /\ Len(header) = 2
                       /\ header[1] = VERSION
                       /\ ((header[2] \div 128) % 2 = 1) <=> large
                       /\ header[2] % 128 = 0
        /\ reader.path # None =>
               reader.status \in {"new", "mapped", "dataversion",
                                  "indexversion", "ready"}
        /\ reader.status = "ready" =>
               LET first == WriteIndexLocate(entries).fanouttable
                   raw == BackFill(first, 1, chosen.fanoutcount, 0).raw
                   table == reader.fanouttable
               IN  /\ reader.params.fanoutprefix = chosen.fanoutprefix
                   /\ DOMAIN table = 1..chosen.fanoutcount
                   /\ raw = dir[readerindexpath(reader)].content.rawfanout
                   /\ \A b \in 1..chosen.fanoutcount :
                          table[b] = IF first[b] # EMPTYFANOUT THEN first[b]
                                     ELSE IF b = 1 THEN 0
                                     ELSE table[b - 1]

\* A reader has been constructed on a published pack: it took the small
\* fanout the config byte 0 stands for, and its table of 2^8 entries has
\* empty buckets, back-filled with the location of an entry that is not
\* the first.
C20_Witness ==
    /\ reader.status = "ready"
    /\ readerindexpath(reader) \in PublishedNames(dir)
    /\ dir[readerindexpath(reader)].content.header = <<VERSION, 0>>
    /\ reader.params.fanoutprefix = SMALLFANOUTPREFIX
    /\ Len(reader.fanouttable) = 256
    /\ WriteIndexLocate(writer[1].entries).fanouttable[256] = EMPTYFANOUT
    /\ reader.fanouttable[256] > 0

====
